---- MODULE Spec2Model ----
(***************************************************************************)
(* css-in-rs: the StyleProvider (src/css-in-rs/src/style_provider.rs) and  *)
(* the Theme / Classes contracts (src/css-in-rs/src/lib.rs).               *)
(*                                                                         *)
(* A provider is a handle (Rc) on one RefCell<Inner>.  Inner holds the     *)
(* <style> element, the current theme, the accumulated css text, the       *)
(* ordered updater records, the map from generator to index, and the       *)
(* running counter.  The css text is modelled as a sequence of rules       *)
(* <<generator, theme it was rendered with, class id it minted>>.          *)
(***************************************************************************)
EXTENDS Naturals, Sequences, FiniteSets, TLC

VARIABLES
    document,   \* the DOM the provider is mounted in: [kind, hasHead, styleElems]
    build,      \* how the crate was built: [unwind, debug]
    T,          \* the theme type the provider is instantiated with
    handles,    \* the StyleProvider values alive: handle -> Rc cell it points at
    inner,      \* the Rc<RefCell<Inner<T>>> cells: cell -> Inner record
    last,       \* the last call made on the provider and what it did
    issued,     \* generator -> the starts add_updater has returned for it
    regVia,     \* the handle the newest updater record was registered through
    poisoned    \* a call on the provider has panicked

vars == <<document, build, T, handles, inner, last, issued, regVia, poisoned>>

(***************************************************************************)
(* Bounds of the model.                                                    *)
(***************************************************************************)
MaxHandles == 2     \* StyleProvider handles (clones) alive at once
MaxUpdaters == 2    \* generator identities presented to one provider

(***************************************************************************)
(* Inputs: theme types, theme values, generators (fn pointers).            *)
(***************************************************************************)
\* EmptyTheme: the crate's own.  EqTheme: fast_cmp is equality.
\* AlwaysChanged: fast_cmp is always false.  CoarseTheme: fast_cmp is always
\* true, as EmptyTheme's, on a type that has more than one value.
ThemeTypes == {"EmptyTheme", "EqTheme", "AlwaysChanged", "CoarseTheme"}

\* EmptyTheme is a unit struct; the other theme types have two values
ThemeValues(ty) == IF ty = "EmptyTheme" THEN {"unit"} ELSE {"A", "B"}

\* G1, G2: macro-generated, fixed number of classes.  GTheme: the number of
\* classes depends on the theme.  GFlaky: the number of classes differs from
\* run to run.  GPanic: panics while generating.  GReenter: calls back into
\* the provider it is being run by.
Gens == {"G1", "G2", "GTheme", "GFlaky", "GPanic", "GReenter"}

\* what one run of the non-deterministic generator may mint: 1 or 2 ids
FlakyCounts == {1, 2}

\* the runs of the non-deterministic generator a call can see: it only
\* matters to a call that runs that generator
FlakyRuns(runsFlaky) == IF runsFlaky THEN FlakyCounts ELSE {1}

NoRet == "none"

\* Theme::fast_cmp: TRUE means "unchanged".
fast_cmp(ty, self, other) ==
    CASE ty = "EmptyTheme"    -> TRUE
      [] ty = "EqTheme"       -> self = other
      [] ty = "AlwaysChanged" -> FALSE
      [] ty = "CoarseTheme"   -> TRUE

\* One rule of generated css: write the rule for class id `counter`, then
\* increment the counter; n rules in a row.
RECURSIVE Emit(_, _, _, _, _)
Emit(g, theme, css, counter, n) ==
    IF n = 0
    THEN [css |-> css, counter |-> counter]
    ELSE Emit(g, theme, Append(css, <<g, theme, counter>>), counter + 1, n - 1)

\* Number of classes generator g defines under `theme`; nd is what the
\* non-deterministic generator does on this run.
Rules(g, theme, nd) ==
    CASE g = "G1"     -> 2
      [] g = "G2"     -> 1
      [] g = "GTheme" -> IF theme = "B" THEN 2 ELSE 1
      [] g = "GFlaky" -> nd
      [] OTHER        -> 1

\* Classes::generate(theme, css, counter), run while the RefCell's borrow
\* flag is `borrowed`.
generate(g, theme, css, counter, nd, borrowed) ==
    LET e == Emit(g, theme, css, counter, Rules(g, theme, nd)) IN
    CASE g = "GPanic" ->
            [css |-> e.css, counter |-> e.counter, panicked |-> TRUE, reentered |-> FALSE]
      [] g = "GReenter" ->
            \* the callback calls provider.borrow_mut() first
            IF borrowed
            THEN [css |-> css, counter |-> counter, panicked |-> TRUE, reentered |-> FALSE]
            ELSE [css |-> e.css, counter |-> e.counter, panicked |-> FALSE, reentered |-> TRUE]
      [] OTHER ->
            [css |-> e.css, counter |-> e.counter, panicked |-> FALSE, reentered |-> FALSE]


(***************************************************************************)
(* A call on Inner works on m = [in, events]: the Inner it is mutating and *)
(* what it has done so far (generator runs, theme stores, buffer clears,   *)
(* writes to the <style> element).  It ends as a result: the Inner it      *)
(* leaves, how it ended, what it returned and what it did.                 *)
(***************************************************************************)
Ok == "ok"

Done(m, ret) == [in |-> m.in, outcome |-> Ok, ret |-> ret, events |-> m.events]

Panic(m, why) == [in |-> m.in, outcome |-> why, ret |-> NoRet, events |-> m.events]

\* (mutant) the buffer is not written to the <style> element
set_text_content_skipped(m) == m

\* self.styles.set_text_content(Some(&self.current_style))
set_text_content(m) ==
    [in     |-> [m.in EXCEPT !.styles = m.in.current_style],
     events |-> Append(m.events, <<"set_text">>)]

\* Inner::new_and_mount_in_root: the Inner a mounted provider starts with.
NewInner(theme) ==
    [ styles         |-> <<>>,
      current_theme  |-> theme,
      current_style  |-> <<>>,
      updaters       |-> <<>>,
      updater_to_idx |-> <<>>,
      counter        |-> 0,
      borrow         |-> FALSE ]

\* (mutant) the kind of the root is not looked at
new_and_mount_in_any_root(root) == IF root.hasHead \/ root.kind # "Document"
                                   THEN Ok ELSE "panic_no_head"

\* Inner::new_and_mount_in_root(root, theme): "ok" with the style element
\* appended to the head, or the panic it ends with.
new_and_mount_in_root(root) ==
    IF root.kind = "Document"
    THEN IF root.hasHead THEN Ok ELSE "panic_no_head"
    ELSE "panic_shadow_root"

\* (mutant) the record's start is not the snapshot of the counter
push_start_zero(updaters, updater, start, stop) ==
    Append(updaters, [updater |-> updater, start |-> 0, stop |-> stop])

\* (mutant) the record is put in front of the list
push_front(updaters, updater, start, stop) ==
    <<[updater |-> updater, start |-> start, stop |-> stop]>> \o updaters

\* self.updaters.push(Updater {updater, start, stop})
push(updaters, updater, start, stop) ==
    Append(updaters, [updater |-> updater, start |-> start, stop |-> stop])

\* (mutant) the entry is always taken to be vacant
occupied_never(map, updater) == FALSE

\* Entry::Occupied / Entry::Vacant
occupied(map, updater) == updater \in DOMAIN map

\* (mutant) the index stored is the length of the list after the push
vac_insert_len_after(map, updater, idx) == map @@ (updater :> (idx + 1))

\* vac.insert(self.updaters.len())
vac_insert(map, updater, idx) == map @@ (updater :> idx)

\* (mutant) the generator is given an empty buffer, which then replaces the
\* accumulated one
run_in_fresh_buffer(m, updater, nd) ==
    LET g == generate(updater, m.in.current_theme, <<>>, m.in.counter, nd, m.in.borrow)
    IN  [in       |-> [m.in EXCEPT !.current_style = g.css, !.counter = g.counter],
         events   |-> Append(m.events,
                             <<"run", updater, m.in.counter, m.in.current_theme>>),
         panicked |-> g.panicked]

\* updater(&self.current_theme, &mut self.current_style, &mut self.counter):
\* the generator writes the buffer and the counter of Inner in place
run_in_place(m, updater, nd) ==
    LET g == generate(updater, m.in.current_theme, m.in.current_style,
                      m.in.counter, nd, m.in.borrow)
    IN  [in       |-> [m.in EXCEPT !.current_style = g.css, !.counter = g.counter],
         events   |-> Append(m.events,
                             <<"run", updater, m.in.counter, m.in.current_theme>>),
         panicked |-> g.panicked]

\* Inner::add_updater(&mut self, updater) -> u64
Inner_add_updater(m, updater, nd) ==
    IF build.debug /\ Cardinality(DOMAIN m.in.updater_to_idx) # Len(m.in.updaters)
    THEN Panic(m, "panic_debug_assert")
    ELSE IF occupied(m.in.updater_to_idx, updater)
    THEN LET idx == m.in.updater_to_idx[updater] IN
         IF idx < Len(m.in.updaters)
         THEN Done(m, m.in.updaters[idx + 1].start)
         ELSE Panic(m, "panic_index")
    ELSE LET vac   == [m EXCEPT !.in.updater_to_idx =
                          vac_insert(@, updater, Len(m.in.updaters))]
             start == vac.in.counter
             ran   == run_in_place(vac, updater, nd)
             stop  == ran.in.counter
         IN  IF ran.panicked
             THEN Panic(ran, "panic_generator")
             ELSE Done(set_text_content(
                          [in     |-> [ran.in EXCEPT !.updaters =
                                          push(@, updater, start, stop)],
                           events |-> ran.events]),
                       start)

\* (mutant) the counter is not checked after the replay
stop_unchecked(counter, stop) == TRUE

\* assert_eq!(counter, self.stop)
stop_reached(counter, stop) == counter = stop

\* (mutant) the replay starts from 0 and not from the recorded start
Updater_update_from_zero(u, theme, css, nd, borrowed) ==
    LET g == generate(u.updater, theme, css, 0, nd, borrowed) IN
    [ css     |-> g.css,
      outcome |-> IF g.panicked THEN "panic_generator"
                  ELSE IF g.counter # u.stop THEN "panic_assert_stop"
                  ELSE Ok ]

\* Updater::update(&self, theme, css): replay from the recorded start into
\* css, then the assertion on the counter.
Updater_update(u, theme, css, nd, borrowed) ==
    LET g == generate(u.updater, theme, css, u.start, nd, borrowed) IN
    [ css     |-> g.css,
      outcome |-> IF g.panicked THEN "panic_generator"
                  ELSE IF ~stop_reached(g.counter, u.stop) THEN "panic_assert_stop"
                  ELSE Ok ]

\* the for loop of Inner::update from the i-th updater on, then the write
RECURSIVE update_from(_, _, _)
update_from(m, i, nd) ==
    IF i > Len(m.in.updaters)
    THEN Done(set_text_content(m), NoRet)
    ELSE LET u   == m.in.updaters[i]
             r   == Updater_update(u, m.in.current_theme, m.in.current_style,
                                   nd, m.in.borrow)
             nxt == [in     |-> [m.in EXCEPT !.current_style = r.css],
                     events |-> Append(m.events,
                                   <<"run", u.updater, u.start, m.in.current_theme>>)]
         IN  IF r.outcome # Ok
             THEN Panic(nxt, r.outcome)
             ELSE update_from(nxt, i + 1, nd)

\* (mutant) the buffer is not cleared before the replay
clear_skipped(m) == [in |-> m.in, events |-> Append(m.events, <<"clear">>)]

\* self.current_style.clear()
clear(m) ==
    [in |-> [m.in EXCEPT !.current_style = <<>>], events |-> Append(m.events, <<"clear">>)]

\* (mutant) the cleared buffer is written to the <style> element before the
\* replay
Inner_update_flush_first(m, nd) == update_from(set_text_content(clear(m)), 1, nd)

\* Inner::update(&mut self)
Inner_update(m, nd) == update_from(clear(m), 1, nd)

\* (mutant) the comparison is not consulted
theme_changed_always(current_theme, theme) == TRUE

\* (mutant) the negation of the comparison is forgotten
theme_changed_unnegated(current_theme, theme) == fast_cmp(T, current_theme, theme)

\* !self.current_theme.fast_cmp(&theme)
theme_changed(current_theme, theme) == ~fast_cmp(T, current_theme, theme)

\* self.current_theme = theme
store_theme(m, theme) ==
    [in |-> [m.in EXCEPT !.current_theme = theme],
     events |-> Append(m.events, <<"store", theme>>)]

\* (mutant) the theme is stored after the rebuild, which runs under the old one
Inner_update_theme_store_after(m, theme, nd) ==
    IF theme_changed(m.in.current_theme, theme)
    THEN LET r == Inner_update(m, nd) IN
         [r EXCEPT !.in.current_theme = theme,
                   !.events = Append(@, <<"store", theme>>)]
    ELSE Done(m, NoRet)

\* (mutant) the theme is stored whatever the comparison says
Inner_update_theme_store_always(m, theme, nd) ==
    IF theme_changed(m.in.current_theme, theme)
    THEN Inner_update(store_theme(m, theme), nd)
    ELSE Done([m EXCEPT !.in.current_theme = theme], NoRet)

\* Inner::update_theme(&mut self, theme)
Inner_update_theme(m, theme, nd) ==
    IF theme_changed(m.in.current_theme, theme)
    THEN Inner_update(store_theme(m, theme), nd)
    ELSE Done(m, NoRet)

(***************************************************************************)
(* The RefCell: borrow_mut() panics when the cell is already borrowed; the *)
(* RefMut is released when the call returns or unwinds.  A panic that      *)
(* aborts (no unwinding) never drops the RefMut.                           *)
(***************************************************************************)
\* (mutant) the borrow flag is not set
borrow_mut_unflagged(cell) == [in |-> cell, events |-> <<>>]

borrow_mut(cell) == [in |-> [cell EXCEPT !.borrow = TRUE], events |-> <<>>]

release(r) ==
    IF r.outcome = Ok \/ build.unwind
    THEN [r EXCEPT !.in.borrow = FALSE]
    ELSE r

AlreadyBorrowed(cell) == Panic([in |-> cell, events |-> <<>>], "panic_borrow")

\* self.inner.borrow_mut().add_updater(updater)
StyleProvider_add_updater(cell, updater, nd) ==
    IF cell.borrow
    THEN AlreadyBorrowed(cell)
    ELSE release(Inner_add_updater(borrow_mut(cell), updater, nd))

\* self.inner.borrow_mut().update_theme(theme)
StyleProvider_update_theme(cell, theme, nd) ==
    IF cell.borrow
    THEN AlreadyBorrowed(cell)
    ELSE release(Inner_update_theme(borrow_mut(cell), theme, nd))

\* (mutant) the clone gets a cell of its own, a copy of the registry
StyleProvider_clone_deep(hs, cells, h) ==
    [handles |-> Append(hs, Len(cells) + 1), inner |-> Append(cells, cells[hs[h]])]

\* #[derive(Clone)]: the new handle shares the Rc of the handle it is cloned from
StyleProvider_clone(hs, cells, h) ==
    [handles |-> Append(hs, hs[h]), inner |-> cells]

\* cross: an add_classes of the generator of the newest record, made through
\* another handle than the one that registered it.  equal: an update_theme
\* whose argument is the value of the stored theme.
LastCall(op, cross, equal, arg, r) ==
    [op |-> op, cross |-> cross, equal |-> equal, arg |-> arg,
     outcome |-> r.outcome, ret |-> r.ret, events |-> r.events]

(***************************************************************************)
(* The state machine.                                                      *)
(***************************************************************************)
Roots ==
    { [kind |-> "Document",   hasHead |-> TRUE,  styleElems |-> 0],
      [kind |-> "Document",   hasHead |-> FALSE, styleElems |-> 0],
      [kind |-> "ShadowRoot", hasHead |-> FALSE, styleElems |-> 0] }

Init ==
    /\ document \in Roots
    /\ build \in [unwind : BOOLEAN, debug : BOOLEAN]
    /\ T \in ThemeTypes
    /\ handles = <<>>
    /\ inner = <<>>
    /\ last = [op |-> "none", cross |-> FALSE, equal |-> FALSE, arg |-> NoRet, outcome |-> Ok, ret |-> NoRet,
               events |-> <<>>]
    /\ issued = [g \in Gens |-> {}]
    /\ regVia = 0
    /\ poisoned = FALSE

\* StyleProvider::new_and_mount(some_elem, theme), some_elem's root node
\* being `document`
new_and_mount(theme) ==
    /\ last.op = "none"
    /\ LET how == new_and_mount_in_root(document) IN
       /\ last' = [last EXCEPT !.op = "new_and_mount", !.arg = theme, !.outcome = how]
       /\ IF how = Ok
          THEN /\ document' = [document EXCEPT !.styleElems = @ + 1]
               /\ inner' = <<NewInner(theme)>>
               /\ handles' = <<1>>
          ELSE UNCHANGED <<document, inner, handles>>
    /\ UNCHANGED <<build, T, issued, regVia, poisoned>>

\* provider.clone()
clone(h) ==
    /\ Len(handles) < MaxHandles
    /\ LET r == StyleProvider_clone(handles, inner, h) IN
       /\ handles' = r.handles
       /\ inner' = r.inner
    /\ UNCHANGED <<document, build, T, last, issued, regVia, poisoned>>

\* StyleProvider::add_classes::<C>() with C::generate = updater
add_classes(h, updater, nd) ==
    LET c == handles[h] IN
    \E r \in {StyleProvider_add_updater(inner[c], updater, nd)} :
        /\ \/ updater \in DOMAIN inner[c].updater_to_idx
           \/ Cardinality(DOMAIN inner[c].updater_to_idx) < MaxUpdaters
        /\ inner' = [inner EXCEPT ![c] = r.in]
        /\ last' = LastCall("add_classes",
                             /\ h # regVia
                             /\ inner[c].updaters # <<>>
                             /\ inner[c].updaters[Len(inner[c].updaters)].updater = updater,
                             FALSE, updater, r)
        /\ issued' = IF r.outcome = Ok
                     THEN [issued EXCEPT ![updater] = @ \cup {r.ret}]
                     ELSE issued
        /\ regVia' = IF Len(r.in.updaters) > Len(inner[c].updaters) THEN h ELSE regVia
        /\ poisoned' = (poisoned \/ r.outcome # Ok)
        /\ UNCHANGED <<document, build, T, handles>>

\* StyleProvider::update_theme(theme)
update_theme(h, theme, nd) ==
    LET c == handles[h] IN
    \E r \in {StyleProvider_update_theme(inner[c], theme, nd)} :
        /\ inner' = [inner EXCEPT ![c] = r.in]
        /\ last' = LastCall("update_theme", FALSE, theme = inner[c].current_theme,
                             theme, r)
        /\ poisoned' = (poisoned \/ r.outcome # Ok)
        /\ UNCHANGED <<document, build, T, handles, issued, regVia>>

Next ==
    \/ \E theme \in ThemeValues(T) : new_and_mount(theme)
    \/ \E h \in DOMAIN handles : clone(h)
    \/ \E h \in DOMAIN handles, updater \in Gens :
          \E nd \in FlakyRuns(updater = "GFlaky") : add_classes(h, updater, nd)
    \/ \E h \in DOMAIN handles, theme \in ThemeValues(T) :
          \E nd \in FlakyRuns("GFlaky" \in DOMAIN inner[handles[h]].updater_to_idx) :
              update_theme(h, theme, nd)

Spec == Init /\ [][Next]_vars


(***************************************************************************)
(* Vocabulary of the properties.                                           *)
(***************************************************************************)
\* the registry of the provider: the first (and only) Rc cell
Registry == inner[1]

Mounted == Len(inner) >= 1

HasRecord(cell, g) == \E i \in DOMAIN cell.updaters : cell.updaters[i].updater = g

RecordOf(cell, g) ==
    cell.updaters[CHOOSE i \in DOMAIN cell.updaters : cell.updaters[i].updater = g]

Recorded(cell) == {cell.updaters[i].updater : i \in DOMAIN cell.updaters}

\* the generators that are deterministic: same theme, same start => same
\* text and same number of ids
DetGens == {"G1", "G2", "GTheme"}

\* the generators whose text and number of ids do not depend on the theme
\* value either, apart from the rendered values
FixedGens == {"G1", "G2"}

Runs(events) == {i \in DOMAIN events : events[i][1] = "run"}

Writes(events) == {i \in DOMAIN events : events[i][1] = "set_text"}

\* the step is a call on the provider, described by last'
IsCall(op) == handles' = handles /\ last'.op = op

\* the css a deterministic generator writes under `theme` from `start`
TextOf(g, theme, start) ==
    [k \in 1..Rules(g, theme, 1) |-> <<g, theme, start + (k - 1)>>]

\* the registration-order concatenation of the records' texts under `theme`
RECURSIVE FullRebuild(_, _, _)
FullRebuild(updaters, theme, i) ==
    IF i > Len(updaters)
    THEN <<>>
    ELSE TextOf(updaters[i].updater, theme, updaters[i].start)
            \o FullRebuild(updaters, theme, i + 1)

Ids(u) == {n \in 0..u.stop : u.start <= n /\ n < u.stop}

(***************************************************************************)
(* C1. Idempotent registration: add_classes of a generator that already    *)
(* has a record returns the start recorded for it (the only start ever     *)
(* returned for it), runs no generator and leaves the <style> text and the *)
(* whole registry as they were; it completes whenever no earlier call on   *)
(* the provider has panicked.                                              *)
(***************************************************************************)
C1_IdempotentRegistration ==
    [][ (IsCall("add_classes") /\ HasRecord(Registry, last'.arg)) =>
          /\ ~poisoned => last'.outcome = Ok
          /\ last'.outcome = Ok =>
                /\ last'.ret = RecordOf(Registry, last'.arg).start
                /\ issued'[last'.arg] = {last'.ret}
                /\ Runs(last'.events) = {}
                /\ inner'[1].styles = Registry.styles
                /\ inner' = inner ]_vars

C1_Witness ==
    /\ last.op = "add_classes"
    /\ last.outcome = Ok
    /\ last.events = <<>>
    /\ ~poisoned
    /\ HasRecord(Registry, last.arg)
    /\ Len(Registry.updaters) = 2

(***************************************************************************)
(* C2. Non-overlapping ranges: the ranges [start, stop) of the updater     *)
(* records are pairwise disjoint, the rules of an earlier record come      *)
(* before the rules of a later record in the <style> text, and as long as  *)
(* no call has panicked every record's rules are in the <style> text with  *)
(* exactly the ids of its range.                                           *)
(***************************************************************************)
C2_NonOverlappingRanges ==
    Mounted =>
      LET us == Registry.updaters
          text == Registry.styles
      IN  /\ \A i, j \in DOMAIN us : i # j => Ids(us[i]) \cap Ids(us[j]) = {}
          /\ \A i, j \in DOMAIN us : \A p, q \in DOMAIN text :
                (i < j /\ text[p][1] = us[i].updater /\ text[q][1] = us[j].updater)
                    => p < q
          /\ ~poisoned =>
                \A i \in DOMAIN us :
                    {text[p][3] : p \in {q \in DOMAIN text : text[q][1] = us[i].updater}}
                        = Ids(us[i])

C2_Witness ==
    /\ Mounted
    /\ Len(Registry.updaters) = 2
    /\ last.op = "update_theme"
    /\ last.outcome = Ok
    /\ Writes(last.events) # {}
    /\ ~poisoned

(***************************************************************************)
(* C3. Rebuild equivalence: when an update_theme whose comparison reported *)
(* "changed" has completed and the registered generators are               *)
(* deterministic, the stored theme is the new one and the <style> text is  *)
(* the concatenation, in registration order, of every record's generator   *)
(* run against the stored theme from its recorded start.                   *)
(***************************************************************************)
C3_RebuildEquivalence ==
    ( /\ last.op = "update_theme"
      /\ last.outcome = Ok
      /\ last.events # <<>>
      /\ Recorded(Registry) \subseteq DetGens )
    => /\ Registry.current_theme = last.arg
       /\ Registry.styles = FullRebuild(Registry.updaters, Registry.current_theme, 1)

C3_Witness ==
    /\ last.op = "update_theme"
    /\ last.outcome = Ok
    /\ last.events # <<>>
    /\ T = "EqTheme"
    /\ Recorded(Registry) = {"G1", "G2"}
    /\ Registry.styles # <<>>
    /\ Registry.styles[1][2] = "B"

(***************************************************************************)
(* C4. Short-circuit: an update_theme whose fast_cmp reports "unchanged"   *)
(* runs no generator, clears nothing, writes nothing: the registry, and    *)
(* the <style> text with it, are exactly as before the call.               *)
(***************************************************************************)
C4_ShortCircuit ==
    [][ (IsCall("update_theme") /\ fast_cmp(T, Registry.current_theme, last'.arg)) =>
          /\ last'.events = <<>>
          /\ inner'[1].styles = Registry.styles
          /\ inner' = inner ]_vars

C4_Witness ==
    /\ last.op = "update_theme"
    /\ last.outcome = Ok
    /\ last.events = <<>>
    /\ T = "EqTheme"
    /\ last.arg = "B"
    /\ Registry.styles # <<>>

(***************************************************************************)
(* C5. Determinism assertion: a rebuild in which some record's generator,  *)
(* replayed from its start, ends with a counter other than its stop, ends  *)
(* in the panic of the assertion and not in completion.                    *)
(***************************************************************************)
\* record i of the registry was replayed by the last call, under the theme
\* the call stored, and minted another number of ids than stop - start
Mismatch(cell, i) ==
    LET u == cell.updaters[i] IN
    \E k \in DOMAIN last.events :
        /\ last.events[k] = <<"run", u.updater, u.start, cell.current_theme>>
        /\ Cardinality({p \in DOMAIN cell.current_style :
                            cell.current_style[p][1] = u.updater}) # u.stop - u.start

C5_DeterminismAssertion ==
    ( /\ last.op = "update_theme"
      /\ \E i \in DOMAIN Registry.updaters : Mismatch(Registry, i) )
    => last.outcome = "panic_assert_stop"

C5_Witness ==
    /\ last.op = "update_theme"
    /\ last.outcome = "panic_assert_stop"
    /\ \E i \in DOMAIN Registry.updaters :
          Mismatch(Registry, i) /\ Registry.updaters[i].updater = "GFlaky"


(***************************************************************************)
(* C6. Identifier stability: no step changes or moves an updater record    *)
(* (its generator, start and stop stay at the same index), and the only    *)
(* start add_classes ever returns for a generator that has a record is the *)
(* start of that record, whatever registrations and theme updates happen   *)
(* in between.                                                             *)
(***************************************************************************)
C6_IdentifierStability ==
    [][ Mounted =>
          /\ \A i \in DOMAIN Registry.updaters :
                /\ i \in DOMAIN inner'[1].updaters
                /\ inner'[1].updaters[i] = Registry.updaters[i]
          /\ \A g \in Recorded(inner'[1]) :
                issued'[g] \subseteq {RecordOf(inner'[1], g).start} ]_vars

C6_Witness ==
    /\ last.op = "update_theme"
    /\ last.outcome = Ok
    /\ Runs(last.events) # {}
    /\ Len(Registry.updaters) = 2
    /\ \A g \in Recorded(Registry) : issued[g] = {RecordOf(Registry, g).start}
    /\ Registry.updaters[2].start > 0

(***************************************************************************)
(* C7. A theme type whose fast_cmp always reports "changed": every         *)
(* update_theme that gets the borrow stores its argument, clears the       *)
(* buffer and replays, also when the argument equals the stored theme; the *)
(* records are untouched; with generators that define a fixed number of    *)
(* classes it completes, and when it completes it has written the <style>  *)
(* text once, to the registration-order concatenation of the generators'   *)
(* texts under the stored theme.                                           *)
(***************************************************************************)
C7_AlwaysChangedTheme ==
    [][ (IsCall("update_theme") /\ T = "AlwaysChanged" /\ ~Registry.borrow) =>
          /\ Len(last'.events) >= 2
          /\ last'.events[1] = <<"store", last'.arg>>
          /\ last'.events[2] = <<"clear">>
          /\ inner'[1].current_theme = last'.arg
          /\ inner'[1].updaters = Registry.updaters
          /\ Recorded(Registry) \subseteq FixedGens => last'.outcome = Ok
          /\ last'.outcome = Ok =>
                /\ Cardinality(Writes(last'.events)) = 1
                /\ Cardinality(Runs(last'.events)) = Len(Registry.updaters)
                /\ Recorded(Registry) \subseteq DetGens =>
                      inner'[1].styles =
                          FullRebuild(inner'[1].updaters, inner'[1].current_theme, 1) ]_vars

C7_Witness ==
    /\ T = "AlwaysChanged"
    /\ last.op = "update_theme"
    /\ last.equal
    /\ last.outcome = Ok
    /\ Cardinality(Runs(last.events)) = 2
    /\ Registry.styles = FullRebuild(Registry.updaters, last.arg, 1)

(***************************************************************************)
(* C8. Mount writes per registration: an add_classes call writes the       *)
(* <style> text once, with the whole accumulated buffer, when it adds a    *)
(* record (a new generator identity, the call completing), and does not    *)
(* write it at all when it adds none.                                      *)
(***************************************************************************)
C8_MountWritesPerRegistration ==
    [][ IsCall("add_classes") =>
          LET added == Len(inner'[1].updaters) - Len(Registry.updaters) IN
          /\ added \in {0, 1}
          /\ Cardinality(Writes(last'.events)) = added
          /\ (last'.outcome = Ok /\ ~occupied(Registry.updater_to_idx, last'.arg))
                => added = 1
          /\ occupied(Registry.updater_to_idx, last'.arg) => added = 0
          /\ added = 1 => inner'[1].styles = inner'[1].current_style
          /\ added = 0 => inner'[1].styles = Registry.styles ]_vars

C8_Witness ==
    /\ last.op = "add_classes"
    /\ last.outcome = Ok
    /\ Cardinality(Writes(last.events)) = 1
    /\ Len(Registry.updaters) = 2
    /\ Registry.updaters[2].updater = last.arg
    /\ Len(Registry.styles) > Registry.updaters[2].stop - Registry.updaters[2].start

(***************************************************************************)
(* C9. Shared handles: every handle points at the one registry cell, so an *)
(* add_classes made through another handle than the one that registered    *)
(* the generator returns the recorded start without running the generator; *)
(* a call that finds the cell borrowed panics and changes nothing, and the *)
(* borrow is free again after every call that returned.                    *)
(***************************************************************************)
C9_SharedHandles ==
    [][ /\ Len(inner') <= 1
        /\ \A h \in DOMAIN handles' : handles'[h] = 1
        /\ (IsCall("add_classes") /\ last'.cross) =>
              /\ ~poisoned => last'.outcome = Ok
              /\ last'.outcome = Ok =>
                    /\ last'.ret = Registry.updaters[Len(Registry.updaters)].start
                    /\ Runs(last'.events) = {}
        /\ ((IsCall("add_classes") \/ IsCall("update_theme")) /\ Registry.borrow) =>
              /\ last'.outcome = "panic_borrow"
              /\ inner' = inner
        /\ ((IsCall("add_classes") \/ IsCall("update_theme")) /\ last'.outcome = Ok) =>
              ~inner'[1].borrow ]_vars

C9_Witness ==
    /\ Len(handles) = 2
    /\ last.op = "add_classes"
    /\ last.cross
    /\ last.outcome = Ok
    /\ last.ret > 0
    /\ regVia = 1

(***************************************************************************)
(* C10. Mounting.  Original statement: a root that is not a document       *)
(* panics and yields no registry, a document root yields a registry with   *)
(* an empty buffer, no records, an empty map and counter 0.                *)
(* As amended: a document root that has a head element yields that         *)
(* registry; a document without a head panics too and yields no registry.  *)
(***************************************************************************)
NoRegistry == handles = <<>> /\ inner = <<>>

FreshRegistry ==
    /\ Len(inner) = 1
    /\ handles # <<>>
    /\ \A h \in DOMAIN handles : handles[h] = 1
    /\ Registry.current_style = <<>>
    /\ Registry.styles = <<>>
    /\ Registry.updaters = <<>>
    /\ DOMAIN Registry.updater_to_idx = {}
    /\ Registry.counter = 0
    /\ Registry.current_theme = last.arg
    /\ document.styleElems = 1

C10_Original ==
    last.op = "new_and_mount" =>
        IF document.kind = "Document"
        THEN last.outcome = Ok /\ FreshRegistry
        ELSE last.outcome # Ok /\ NoRegistry

C10_MountOnRoot ==
    last.op = "new_and_mount" =>
        IF document.kind = "Document" /\ document.hasHead
        THEN last.outcome = Ok /\ FreshRegistry
        ELSE last.outcome # Ok /\ NoRegistry /\ document.styleElems = 0

C10_Witness ==
    /\ last.op = "new_and_mount"
    /\ document.kind = "ShadowRoot"
    /\ last.outcome = "panic_shadow_root"
    /\ NoRegistry

(***************************************************************************)
(* C11. New-registration allocation: an add_classes of a generator the map *)
(* does not hold, when it completes, has run the generator once against    *)
(* the stored theme from the counter as it was before the call, has        *)
(* appended the one record {generator, start = the counter before, stop =  *)
(* the counter after} at the end of the list, has indexed it under the     *)
(* position it got, and returns that start (0 on a fresh provider).        *)
(***************************************************************************)
C11_NewRegistrationAllocation ==
    [][ ( /\ IsCall("add_classes")
          /\ ~occupied(Registry.updater_to_idx, last'.arg)
          /\ last'.outcome = Ok ) =>
          LET g   == last'.arg
              new == inner'[1]
          IN  /\ last'.ret = Registry.counter
              /\ Registry.updaters = <<>> /\ Registry.updater_to_idx = <<>>
                    /\ Registry.current_style = <<>> => last'.ret = 0
              /\ new.updaters = Append(Registry.updaters,
                                       [updater |-> g, start |-> Registry.counter,
                                        stop |-> new.counter])
              /\ new.counter = Registry.counter
                                 + (Len(new.current_style) - Len(Registry.current_style))
              /\ last'.events[1] = <<"run", g, Registry.counter, Registry.current_theme>>
              /\ Cardinality(Runs(last'.events)) = 1
              /\ DOMAIN new.updater_to_idx = DOMAIN Registry.updater_to_idx \cup {g}
              /\ new.updater_to_idx[g] + 1 = Len(new.updaters)
              /\ new.updaters[new.updater_to_idx[g] + 1].updater = g
              /\ \A f \in DOMAIN Registry.updater_to_idx :
                    new.updater_to_idx[f] = Registry.updater_to_idx[f] ]_vars

C11_Witness ==
    /\ last.op = "add_classes"
    /\ last.outcome = Ok
    /\ Cardinality(Runs(last.events)) = 1
    /\ Len(Registry.updaters) = 2
    /\ last.ret = Registry.updaters[2].start
    /\ last.ret = Registry.updaters[1].stop
    /\ Registry.updater_to_idx[last.arg] = 1
    /\ Registry.counter = Registry.updaters[2].stop

(***************************************************************************)
(* C12. Incremental append equals full rebuild: as long as no call has     *)
(* panicked and the registered generators are deterministic, the buffer    *)
(* and the <style> text are both the registration-order concatenation of   *)
(* every record's generator run from its start against the stored theme.   *)
(***************************************************************************)
C12_AppendEqualsRebuild ==
    (Mounted /\ ~poisoned /\ Recorded(Registry) \subseteq DetGens) =>
        /\ Registry.current_style =
              FullRebuild(Registry.updaters, Registry.current_theme, 1)
        /\ Registry.styles = Registry.current_style

C12_Witness ==
    /\ Mounted
    /\ ~poisoned
    /\ T = "EqTheme"
    /\ last.op = "add_classes"
    /\ Cardinality(Writes(last.events)) = 1
    /\ Recorded(Registry) = {"G1", "GTheme"}
    /\ Registry.current_theme = "B"
    /\ Registry.styles[1][2] = "B"
    /\ Len(Registry.styles) = 4

(***************************************************************************)
(* C13. When the assertion fires.  Original statement: the rebuild fails   *)
(* on the assertion only for a generator that is non-deterministic (for    *)
(* the same theme and the same start it mints another number of ids); a    *)
(* generator that is deterministic in that sense never makes update_theme  *)
(* fail.                                                                   *)
(* As amended: the rebuild fails on the assertion only for a generator     *)
(* whose replay minted another number of ids than its first run did,       *)
(* because it is non-deterministic or because the number of ids it mints   *)
(* depends on the theme; a generator that mints the same number of ids on  *)
(* every run and for every theme never makes update_theme fail.            *)
(***************************************************************************)
\* the generator whose replay ended the last call
LastRun == last.events[Len(last.events)][2]

AssertionFired == last.op = "update_theme" /\ last.outcome = "panic_assert_stop"

\* non-deterministic in the sense of the data model: same theme, same
\* start, another number of ids
NonDeterministic(g) == g = "GFlaky"

C13_Original == AssertionFired => NonDeterministic(LastRun)

C13_AssertionOnlyOnMismatch ==
    /\ AssertionFired =>
          /\ LastRun \notin FixedGens
          /\ \E i \in DOMAIN Registry.updaters :
                /\ Registry.updaters[i].updater = LastRun
                /\ Mismatch(Registry, i)
          /\ Cardinality(Runs(last.events)) <= Len(Registry.updaters)
    /\ (last.op = "update_theme" /\ last.outcome # Ok /\ Recorded(Registry) \subseteq FixedGens)
          => last.outcome = "panic_borrow"

C13_Witness ==
    /\ AssertionFired
    /\ T = "EqTheme"
    /\ LastRun = "GTheme"
    /\ Recorded(Registry) = {"G1", "GTheme"}
    /\ Registry.updaters[2].updater = "GTheme"

(***************************************************************************)
(* C14. No partial state after an interrupted operation: when an           *)
(* add_classes or update_theme call is interrupted by a panicking          *)
(* generator or by the failing assertion, either the buffer, the records,  *)
(* the map, the counter, the stored theme and the <style> text are all as  *)
(* before the call, or the provider is unusable (its cell stays borrowed,  *)
(* so every later call through any handle panics).                         *)
(***************************************************************************)
Interrupted == last.outcome \in {"panic_generator", "panic_assert_stop"}

Unusable(cell) == cell.borrow

C14_NoPartialState ==
    [][ ( /\ IsCall("add_classes") \/ IsCall("update_theme")
          /\ Interrupted' ) =>
          \/ Unusable(inner'[1])
          \/ /\ inner'[1].current_style = Registry.current_style
             /\ inner'[1].updaters = Registry.updaters
             /\ inner'[1].updater_to_idx = Registry.updater_to_idx
             /\ inner'[1].counter = Registry.counter
             /\ inner'[1].current_theme = Registry.current_theme
             /\ inner'[1].styles = Registry.styles ]_vars

(***************************************************************************)
(* C15. A failed rebuild never publishes partial text: an update_theme     *)
(* that ends in the panic of the assertion has replayed the records in     *)
(* order up to the one that failed and no record after it, has not written *)
(* the <style> element, and leaves its text as it was; the <style> text    *)
(* only ever changes in a call that completes, to the whole buffer.        *)
(***************************************************************************)
\* the events of a rebuild under `theme` that replayed the first k records
ReplayPrefix(updaters, theme, k) ==
    <<<<"store", theme>>, <<"clear">>>> \o
        [i \in 1..k |-> <<"run", updaters[i].updater, updaters[i].start, theme>>]

C15_FailedRebuildUnpublished ==
    [][ /\ (IsCall("update_theme") /\ last'.outcome = "panic_assert_stop") =>
              LET k == Cardinality(Runs(last'.events)) IN
              /\ k \in 1..Len(Registry.updaters)
              /\ last'.events = ReplayPrefix(Registry.updaters, last'.arg, k)
              /\ Writes(last'.events) = {}
              /\ inner'[1].styles = Registry.styles
        /\ (Mounted /\ inner'[1].styles # Registry.styles) =>
              /\ last'.outcome = Ok
              /\ Cardinality(Writes(last'.events)) = 1
              /\ inner'[1].styles = inner'[1].current_style ]_vars

C15_Witness ==
    /\ AssertionFired
    /\ Len(Registry.updaters) = 2
    /\ Cardinality(Runs(last.events)) = 1
    /\ Registry.styles # <<>>
    /\ Registry.styles # Registry.current_style
    /\ Registry.styles[1][2] # Registry.current_theme

(***************************************************************************)
(* C16. Full rebuild ordering: an update_theme whose comparison reports    *)
(* "changed" and that completes has, in this order, stored the new theme,  *)
(* cleared the buffer, run the generator of every record once, in          *)
(* registration order, from the record's start under the new theme, and    *)
(* written the <style> element once; one that is interrupted has done a    *)
(* prefix of that; with generators that define a fixed number of classes   *)
(* it completes.                                                           *)
(***************************************************************************)
C16_FullRebuildOrdering ==
    [][ ( /\ IsCall("update_theme")
          /\ ~Registry.borrow
          /\ ~fast_cmp(T, Registry.current_theme, last'.arg) ) =>
          LET n == Len(Registry.updaters) IN
          /\ last'.outcome = Ok =>
                last'.events = Append(ReplayPrefix(Registry.updaters, last'.arg, n),
                                      <<"set_text">>)
          /\ last'.outcome # Ok =>
                \E k \in 1..n :
                    last'.events = ReplayPrefix(Registry.updaters, last'.arg, k)
          /\ Recorded(Registry) \subseteq FixedGens => last'.outcome = Ok ]_vars

C16_Witness ==
    /\ last.op = "update_theme"
    /\ last.outcome = Ok
    /\ T = "EqTheme"
    /\ Len(last.events) = 5
    /\ last.events[1] = <<"store", "B">>
    /\ last.events[3] = <<"run", "G2", 0, "B">>
    /\ last.events[4] = <<"run", "G1", 1, "B">>
    /\ last.events[5] = <<"set_text">>

(***************************************************************************)
(* C17. Re-entrancy is rejected: a generator that calls back into the      *)
(* provider while it is being run finds the cell borrowed and panics, and  *)
(* the call that ran it with it: the generator writes no rule, mints no    *)
(* id, gets no record and nothing is written to the <style> element; and   *)
(* any call that finds the cell borrowed panics without touching the       *)
(* registry.                                                               *)
(***************************************************************************)
RulesOf(css, g) == {p \in DOMAIN css : css[p][1] = g}

C17_ReentrancyRejected ==
    [][ /\ (IsCall("add_classes") /\ last'.arg = "GReenter" /\ ~poisoned) =>
              last'.outcome = "panic_generator"
        /\ (IsCall("add_classes") /\ last'.arg = "GReenter" /\ last'.events # <<>>) =>
              /\ last'.outcome = "panic_generator"
              /\ last'.events = <<<<"run", "GReenter", Registry.counter,
                                    Registry.current_theme>>>>
              /\ inner'[1].current_style = Registry.current_style
              /\ inner'[1].counter = Registry.counter
              /\ inner'[1].updaters = Registry.updaters
              /\ inner'[1].current_theme = Registry.current_theme
              /\ inner'[1].styles = Registry.styles
        /\ Len(inner') >= 1 =>
              /\ ~HasRecord(inner'[1], "GReenter")
              /\ RulesOf(inner'[1].current_style, "GReenter") = {}
              /\ RulesOf(inner'[1].styles, "GReenter") = {}
        /\ ((IsCall("add_classes") \/ IsCall("update_theme")) /\ Registry.borrow) =>
              /\ last'.outcome = "panic_borrow"
              /\ last'.events = <<>>
              /\ inner'[1] = Registry ]_vars

C17_Witness ==
    /\ last.op = "add_classes"
    /\ last.arg = "GReenter"
    /\ last.outcome = "panic_generator"
    /\ Len(handles) = 2
    /\ Len(Registry.updaters) = 1
    /\ Registry.styles # <<>>
    /\ Registry.styles = Registry.current_style
    /\ Registry.counter = Registry.updaters[1].stop

(***************************************************************************)
(* C18. Counter monotonicity and contiguity: no step decreases the counter *)
(* of the registry, and a step changes it only by registering a generator  *)
(* the map did not hold, which adds a record; in every state in which the  *)
(* provider can be called the counter is the stop of the last record (0    *)
(* when there is none), the first record starts at 0 and every other       *)
(* record starts at the stop of the record before it.                      *)
(***************************************************************************)
Contiguous(cell) ==
    LET us == cell.updaters IN
    /\ cell.counter = IF us = <<>> THEN 0 ELSE us[Len(us)].stop
    /\ us # <<>> => us[1].start = 0
    /\ \A i \in DOMAIN us : i > 1 => us[i].start = us[i - 1].stop

C18_CounterContiguity ==
    [][ (Mounted /\ ~Unusable(inner'[1])) =>
          /\ inner'[1].counter >= Registry.counter
          /\ inner'[1].counter # Registry.counter =>
                /\ IsCall("add_classes")
                /\ ~occupied(Registry.updater_to_idx, last'.arg)
                /\ Len(inner'[1].updaters) = Len(Registry.updaters) + 1
          /\ Contiguous(inner'[1]) ]_vars

(***************************************************************************)
(* C19. Frame of update_theme: no update_theme call, rebuilding or not,    *)
(* completing or not, changes the counter, the updater records or the map; *)
(* one whose comparison reports "unchanged" leaves the stored theme as it  *)
(* was, also when its argument is another value; and a generator           *)
(* registered later is run against the theme that is stored.               *)
(***************************************************************************)
C19_UpdateThemeFrame ==
    [][ /\ IsCall("update_theme") =>
              /\ inner'[1].counter = Registry.counter
              /\ inner'[1].updaters = Registry.updaters
              /\ inner'[1].updater_to_idx = Registry.updater_to_idx
              /\ fast_cmp(T, Registry.current_theme, last'.arg) =>
                    /\ inner'[1].current_theme = Registry.current_theme
                    /\ last'.outcome = Ok => last'.events = <<>>
        /\ (IsCall("add_classes") /\ last'.events # <<>>) =>
              /\ last'.events[1][4] = Registry.current_theme
              /\ inner'[1].current_theme = Registry.current_theme ]_vars

C19_Witness ==
    /\ last.op = "update_theme"
    /\ last.outcome = Ok
    /\ last.events = <<>>
    /\ ~last.equal
    /\ Registry.current_theme # last.arg
    /\ Len(Registry.updaters) = 2
    /\ Registry.counter = Registry.updaters[2].stop
    /\ Registry.styles[1][2] = Registry.current_theme

(***************************************************************************)
(* C20. Map/list consistency: in every state in which an add_classes can   *)
(* start, the map has as many entries as the list has records, every       *)
(* generator in the map is mapped to the index of a record that holds that *)
(* generator, and two generators are never mapped to the same index.       *)
(***************************************************************************)
C20_MapListConsistency ==
    (Mounted /\ ~Unusable(Registry)) =>
        LET map == Registry.updater_to_idx
            us  == Registry.updaters
        IN  /\ Cardinality(DOMAIN map) = Len(us)
            /\ \A g \in DOMAIN map :
                  /\ map[g] < Len(us)
                  /\ us[map[g] + 1].updater = g
            /\ \A g, f \in DOMAIN map : g # f => map[g] # map[f]

====
